---- MODULE Spec2Model ----
(***************************************************************************)
(* A model of src/app.py, the "PDF Table Extractor & JSON Converter"       *)
(* Streamlit script: header normalisation, DataFrame construction, the     *)
(* trim / edit / split section, convert_tables_to_json and the try/except  *)
(* structure of one script run.                                            *)
(*                                                                         *)
(* Data representation                                                     *)
(*   - a Python str is the sequence of its characters,                     *)
(*     "Total" is <<"T","o","t","a","l">>;                                 *)
(*   - a character below U+0080 is the one-character string holding it;    *)
(*     any other character is the string naming its code point, "U+" and   *)
(*     four upper-case hexadecimal digits: U+00A0 is "U+00A0", U+00E9 is   *)
(*     "U+00E9", and "A", U+00A0, "B" is <<"A","U+00A0","B">>;             *)
(*   - Python None is the one-element sequence <<"None">>, which is no     *)
(*     string (its element is not a character);                            *)
(*   - a DataFrame is a record [columns |-> sequence of labels,            *)
(*     rows |-> sequence of rows, each a sequence of cells];               *)
(*   - a dict is a function whose domain is the set of its keys.           *)
(***************************************************************************)
EXTENDS Integers, Sequences, FiniteSets, TLC

VARIABLES
    pc,                    \* position of the script run / of the function under check
    \* ---- header normalisation loop, src/app.py:125-142
    header,                \* table_data[0]
    i_hdr,                 \* the loop index i of `for i, h in enumerate(header)`
    columns_df,            \* columns_df
    temp_col_names,        \* temp_col_names
    \* ---- DataFrame construction, src/app.py:144-154
    table_data,            \* one raw table of page.extract_tables()
    df,                    \* the DataFrame built from it, or the exception raised
    \* ---- convert_tables_to_json, src/app.py:13-71
    tables,                \* the argument of convert_tables_to_json
    combined_json,         \* its result
    \* ---- one run of the script, src/app.py:82-308
    uploaded_file,         \* the uploaded document, as the extractor sees it
    temp_file,             \* "none" | "exists" | "deleted"
    extracted_tables_dfs,  \* extracted_tables_dfs
    df_to_operate,         \* df_to_operate
    trimmed_df,            \* trimmed_df
    edited_df,             \* edited_df
    num_splits,            \* num_splits
    split_idx,             \* the values of the split-point number_input widgets
    split_points_input,    \* split_points_input
    split_points,          \* split_points
    split_tables,          \* split_tables
    messages,              \* st.error / st.warning / st.info / st.success calls, in order
    downloads,             \* st.download_button calls, in order
    exc                    \* the exception caught at src/app.py:295, or NoExc

hdrVars == <<header, i_hdr, columns_df, temp_col_names>>
gridVars == <<table_data, df>>
convVars == <<tables, combined_json>>
splitVars == <<edited_df, num_splits, split_idx, split_points_input, split_points, split_tables>>
runVars == <<uploaded_file, temp_file, extracted_tables_dfs, df_to_operate, trimmed_df>>
uiVars == <<messages, downloads, exc>>
vars == <<pc, hdrVars, gridVars, convVars, splitVars, runVars, uiVars>>

(***************************************************************************)
(* Bounds of the model.                                                    *)
(***************************************************************************)
MaxCols == 4          \* header cells of a normalised header
MaxGridCols == 2      \* header cells of a raw table handed to the grid construction
MaxGridRows == 2      \* data rows of such a raw table
MaxSplitRows == 10    \* rows of an edited table handed to the split section
MaxSplits == 3        \* num_splits explored
MaxTables == 3        \* length of the list handed to convert_tables_to_json
MaxPages == 2         \* pages of an uploaded document
MaxDocRows == 3       \* data rows of a table of an uploaded document

(***************************************************************************)
(* Python strings.                                                         *)
(***************************************************************************)
None == <<"None">>
EmptyStr == <<>>

Digits == <<"0", "1", "2", "3", "4", "5", "6", "7", "8", "9">>

\* str(n) for an int n >= 0, as the f-strings format it
RECURSIVE IntStr(_)
IntStr(n) ==
    IF n < 10 THEN <<Digits[n + 1]>>
    ELSE IntStr(n \div 10) \o <<Digits[(n % 10) + 1]>>

\* the characters str.strip() removes, those str.isspace() accepts: TAB, LF,
\* FF, CR and SPACE, then U+000B and U+001C..U+001F written as themselves,
\* then the ones from U+0080 on by code point
PyWhitespace ==
    {"\t", "\n", "\f", "\r", " ",
     "", "", "", "", "",
     "U+0085", "U+00A0", "U+1680", "U+2000", "U+2001", "U+2002",
     "U+2003", "U+2004", "U+2005", "U+2006", "U+2007", "U+2008",
     "U+2009", "U+200A", "U+2028", "U+2029", "U+202F", "U+205F",
     "U+3000"}

IsSpace(c) == c \in PyWhitespace

RECURSIVE LStrip(_)
LStrip(s) ==
    IF s = <<>> THEN <<>>
    ELSE IF IsSpace(Head(s)) THEN LStrip(Tail(s)) ELSE s

RECURSIVE RStrip(_)
RStrip(s) ==
    IF s = <<>> THEN <<>>
    ELSE IF IsSpace(s[Len(s)]) THEN RStrip(SubSeq(s, 1, Len(s) - 1)) ELSE s

\* str.strip()
Strip(s) == RStrip(LStrip(s))

S_Extracted_Column_ ==
    <<"E","x","t","r","a","c","t","e","d","_","C","o","l","u","m","n","_">>
S_Unnamed_Column_ == <<"U","n","n","a","m","e","d","_","C","o","l","u","m","n","_">>
S_Table == <<"T","a","b","l","e"," ">>
S_Details == <<"D","e","t","a","i","l","s"," ","f","o","r"," ","T","a","b","l","e"," ">>
S_Row == <<"R","o","w"," ">>
S_Total == <<"T","o","t","a","l">>

(***************************************************************************)
(* Header normalisation, src/app.py:125-142.                               *)
(***************************************************************************)
\* lines 131-133: the name of header cell h at 0-based position i, before the
\* uniqueness loop
ColName(h, i) ==
    LET col_name == IF h # None THEN Strip(h) ELSE EmptyStr
    IN  IF col_name = EmptyStr
        THEN S_Extracted_Column_ \o IntStr(i + 1)
        ELSE col_name

\* lines 136-140: while col_name in temp_col_names: col_name = f"{original}_{count}"
RECURSIVE UniqueLoop(_, _, _, _)
UniqueLoop(original_col_name, col_name, count, used) ==
    IF col_name \in used
    THEN UniqueLoop(original_col_name,
                    original_col_name \o <<"_">> \o IntStr(count),
                    count + 1, used)
    ELSE col_name

\* variant: the uniqueness loop left out
UniqueNameMutNoLoop(original_col_name, used) == original_col_name

\* variant: count starts at 2
UniqueNameMutFromTwo(original_col_name, used) ==
    UniqueLoop(original_col_name, original_col_name, 2, used)

UniqueName(original_col_name, used) ==
    UniqueLoop(original_col_name, original_col_name, 1, used)

\* one iteration of the loop at line 130, on the pair (columns_df, temp_col_names)
HeaderIter(hdr, i, cols, used) ==
    LET col_name == UniqueName(ColName(hdr[i + 1], i), used)
    IN  [cols |-> Append(cols, col_name), used |-> used \cup {col_name}]

RECURSIVE HeaderFrom(_, _, _, _)
HeaderFrom(hdr, i, cols, used) ==
    IF i >= Len(hdr) THEN cols
    ELSE LET r == HeaderIter(hdr, i, cols, used)
         IN  HeaderFrom(hdr, i + 1, r.cols, r.used)

\* lines 128-142 as a whole: columns_df of a header row
NormalizeHeader(hdr) == HeaderFrom(hdr, 0, <<>>, {})

(***************************************************************************)
(* Exceptions.  A raised exception is named by its class.                  *)
(***************************************************************************)
NoExc == "none"

(***************************************************************************)
(* DataFrames and their construction, src/app.py:144-153.                  *)
(***************************************************************************)
EmptyDataFrame == [columns |-> <<>>, rows |-> <<>>]

\* DataFrame.empty: any axis of length 0
IsEmpty(table_df) == Len(table_df.rows) = 0 \/ Len(table_df.columns) = 0

Max(a, b) == IF a >= b THEN a ELSE b
Min(a, b) == IF a <= b THEN a ELSE b

RECURSIVE MaxRowLen(_)
MaxRowLen(data_rows) ==
    IF data_rows = <<>> THEN 0
    ELSE Max(Len(Head(data_rows)), MaxRowLen(Tail(data_rows)))

\* pandas aligns a list of lists by position: every row is filled with None up to
\* the longest row
PadRow(row, width) == [j \in 1..width |-> IF j <= Len(row) THEN row[j] ELSE None]

\* line 151: pd.DataFrame(data_rows, columns=columns_df) for a non-empty list of
\* rows.  pandas raises ValueError ("N columns passed, passed data had M columns")
\* unless the longest row has exactly len(columns) cells.
DataFrameCtor(data_rows, columns) ==
    IF MaxRowLen(data_rows) # Len(columns)
    THEN [error |-> "ValueError", df |-> EmptyDataFrame]
    ELSE [error |-> NoExc,
          df |-> [columns |-> columns,
                  rows |-> [r \in 1..Len(data_rows) |->
                                PadRow(data_rows[r], Len(columns))]]]

\* line 153: df.fillna("")
FillNa(table_df) ==
    [table_df EXCEPT !.rows =
        [r \in 1..Len(table_df.rows) |->
            [j \in 1..Len(table_df.rows[r]) |->
                IF table_df.rows[r][j] = None THEN EmptyStr ELSE table_df.rows[r][j]]]]

\* lines 125-153 for one non-empty table_data: the DataFrame, or the exception
BuildDataFrame(raw) ==
    LET cols == NormalizeHeader(raw[1])
        data_rows == Tail(raw)
    IN  IF data_rows = <<>> /\ cols = <<>>
        THEN [error |-> NoExc, df |-> EmptyDataFrame]
        ELSE IF data_rows = <<>>
        THEN [error |-> NoExc, df |-> [columns |-> cols, rows |-> <<>>]]
        ELSE LET r == DataFrameCtor(data_rows, cols)
             IN  IF r.error # NoExc THEN r
                 ELSE [error |-> NoExc, df |-> FillNa(r.df)]

(***************************************************************************)
(* UI calls.                                                               *)
(***************************************************************************)
Msg(kind, text, arg) == [kind |-> kind, text |-> text, arg |-> arg]

(***************************************************************************)
(* convert_tables_to_json, src/app.py:13-71.                               *)
(***************************************************************************)
S_text == <<"t","e","x","t">>
S_matrixdropdown == <<"m","a","t","r","i","x","d","r","o","p","d","o","w","n">>
S_page1 == <<"p","a","g","e","1">>

\* lines 26-36
JsonColumns(table_df) ==
    [i \in 1..Len(table_df.columns) |->
        LET col_header == table_df.columns[i]
            stripped == Strip(col_header)
            col_name_str == IF stripped = EmptyStr
                            THEN S_Unnamed_Column_ \o IntStr(i)
                            ELSE stripped
        IN  [name |-> col_name_str,
             title |-> IF stripped # EmptyStr THEN col_header ELSE col_name_str,
             cellType |-> S_text]]

\* a dict filled by d[keys[1]] = vals[1]; d[keys[2]] = vals[2]; ...: a key written
\* twice keeps its last value
DictOf(keys, vals) ==
    [k \in {keys[j] : j \in 1..Len(keys)} |->
        LET js == {j \in 1..Len(keys) : keys[j] = k}
            last == CHOOSE j \in js : \A j2 \in js : j2 <= j
        IN  vals[last]]

\* line 42: f"Row {i_row + 1}", i_row0 the 0-based row
RowName(i_row0) == S_Row \o IntStr(i_row0 + 1)

\* lines 44-49: one row's dict
RowValues(table_df, columns, i_row) ==
    DictOf([c \in 1..Len(columns) |-> columns[c].name],
           [c \in 1..Len(columns) |->
               IF table_df.rows[i_row][c] # None THEN table_df.rows[i_row][c]
               ELSE EmptyStr])

\* line 55: f"Table {idx + 1}", idx0 the 0-based position in the list
ElementName(idx0) == S_Table \o IntStr(idx0 + 1)

\* lines 24-60: the element of one non-empty table at 0-based position idx0
Element(table_df, idx0) ==
    LET columns == JsonColumns(table_df)
        n == Len(table_df.rows)
        rows_for_surveyjs == [i \in 1..n |-> RowName(i - 1)]
        row_data == DictOf(rows_for_surveyjs,
                           [i \in 1..n |-> RowValues(table_df, columns, i)])
    IN  [type |-> S_matrixdropdown,
         name |-> ElementName(idx0),
         title |-> S_Details \o IntStr(idx0 + 1),
         defaultValue |-> row_data,
         columns |-> columns,
         rows |-> rows_for_surveyjs]

\* line 20: the tables the loop skips
\* variant: empty tables are not skipped
SkipsMutKeepEmpty(table_df) == FALSE

Skips(table_df) == IsEmpty(table_df)

RECURSIVE AllElements(_, _)
AllElements(tbls, idx0) ==
    IF idx0 >= Len(tbls) THEN <<>>
    ELSE IF Skips(tbls[idx0 + 1]) THEN AllElements(tbls, idx0 + 1)
    ELSE <<Element(tbls[idx0 + 1], idx0)>> \o AllElements(tbls, idx0 + 1)

\* line 21: the warnings of the skipped tables
RECURSIVE SkipWarnings(_, _)
SkipWarnings(tbls, idx0) ==
    IF idx0 >= Len(tbls) THEN <<>>
    ELSE IF Skips(tbls[idx0 + 1])
    THEN <<Msg("warning", "Table {idx+1} is empty. Skipping.", idx0 + 1)>>
         \o SkipWarnings(tbls, idx0 + 1)
    ELSE SkipWarnings(tbls, idx0 + 1)

\* lines 64-71
convert_tables_to_json(tbls) ==
    [pages |-> << [name |-> S_page1, elements |-> AllElements(tbls, 0)] >>]

\* combined_json before any assignment
NoJson == [pages |-> <<>>]

(***************************************************************************)
(* The split section, src/app.py:191-257.                                  *)
(***************************************************************************)
\* DataFrame.iloc[start:end]
\* variant: the end of the slice included
IlocMutInclusive(table_df, start, end) ==
    [table_df EXCEPT !.rows = SubSeq(table_df.rows, start + 1, Min(end + 1, Len(table_df.rows)))]

Iloc(table_df, start, end) ==
    [table_df EXCEPT !.rows = SubSeq(table_df.rows, start + 1, Min(end, Len(table_df.rows)))]

\* lines 206-208: default_split_val of widget i (0-based) for n rows
\* variant: i in place of i + 1
DefaultSplitValMutOffByOne(i, n, k) == Max(1, Min((i * n) \div k, n - 1))

DefaultSplitVal(i, n, k) == Max(1, Min(((i + 1) * n) \div k, n - 1))

\* lines 212-214: the number_input's min_value, max_value and value
WidgetMin == 0
WidgetMax(n) == IF n > 1 THEN n - 2 ELSE 0
WidgetValue(i, n, k) ==
    IF DefaultSplitVal(i, n, k) > 0 THEN DefaultSplitVal(i, n, k) - 1 ELSE 0

\* the default values of the num_splits - 1 widgets
WidgetDefaults(n, k) == [w \in 1..(k - 1) |-> WidgetValue(w - 1, n, k)]

\* st.number_input raises StreamlitAPIException for a value outside
\* [min_value, max_value]
WidgetsAccepted(n, k) ==
    \A w \in 1..(k - 1) :
        WidgetMin <= WidgetValue(w - 1, n, k) /\ WidgetValue(w - 1, n, k) <= WidgetMax(n)

\* line 217: split_points_input.append(split_idx + 1)
ToSplitPoint(idx) == idx + 1

\* sorted(list(S)) for a set of ints
RECURSIVE Sorted(_)
Sorted(S) ==
    IF S = {} THEN <<>>
    ELSE LET m == CHOOSE x \in S : \A y \in S : x <= y
         IN  <<m>> \o Sorted(S \ {m})

\* line 222: the comprehension reads the list of line 220
RECURSIVE KeepPoints(_, _, _)
KeepPoints(pts, i, n) ==
    IF i > Len(pts) THEN <<>>
    ELSE IF pts[i] >= 0 /\ pts[i] <= n /\ (i = 1 \/ pts[i] > pts[i - 1])
    THEN <<pts[i]>> \o KeepPoints(pts, i + 1, n)
    ELSE KeepPoints(pts, i + 1, n)

\* lines 220-222
\* variant: len(edited_df) not added to the split points
SplitPointsMutNoEnd(inputs, n) ==
    KeepPoints(Sorted({0} \cup {inputs[j] : j \in 1..Len(inputs)}), 1, n)

SplitPoints(inputs, n) ==
    KeepPoints(Sorted({0} \cup {inputs[j] : j \in 1..Len(inputs)} \cup {n}), 1, n)

\* lines 225-230
RECURSIVE SplitTablesFrom(_, _, _)
SplitTablesFrom(table_df, pts, i) ==
    IF i >= Len(pts) THEN <<>>
    ELSE IF pts[i] < pts[i + 1]
    THEN <<Iloc(table_df, pts[i], pts[i + 1])>> \o SplitTablesFrom(table_df, pts, i + 1)
    ELSE SplitTablesFrom(table_df, pts, i + 1)

SplitTables(table_df, pts) == SplitTablesFrom(table_df, pts, 1)

\* lines 239-254: the CSV download buttons and the "is empty" infos
RECURSIVE CsvDownloads(_, _)
CsvDownloads(tbls, idx0) ==
    IF idx0 >= Len(tbls) THEN <<>>
    ELSE IF ~IsEmpty(tbls[idx0 + 1])
    THEN <<[file_name |-> "split_table_part_{idx+1}.csv", part |-> idx0 + 1,
            mime |-> "text/csv", data |-> tbls[idx0 + 1]]>>
         \o CsvDownloads(tbls, idx0 + 1)
    ELSE CsvDownloads(tbls, idx0 + 1)

RECURSIVE CsvInfos(_, _)
CsvInfos(tbls, idx0) ==
    IF idx0 >= Len(tbls) THEN <<>>
    ELSE IF IsEmpty(tbls[idx0 + 1])
    THEN <<Msg("info", "Split Table Part {idx+1} is empty.", idx0 + 1)>>
         \o CsvInfos(tbls, idx0 + 1)
    ELSE CsvInfos(tbls, idx0 + 1)

(***************************************************************************)
(* Extraction, src/app.py:109-156.  An uploaded document is                *)
(* [readable, pages]: pages is what pdfplumber's pdf.pages yields, each    *)
(* page the list page.extract_tables() returns; an unreadable document     *)
(* makes pdfplumber.open raise.                                            *)
(***************************************************************************)
NoFile == [readable |-> FALSE, pages |-> <<"no file">>]
CorruptDoc == [readable |-> FALSE, pages |-> <<>>]

\* lines 122-156 for the tables of one page, from table t on; acc is
\* [error, dfs, msgs]
RECURSIVE ExtractPageTables(_, _, _, _)
ExtractPageTables(page_tables, t, page_num, acc) ==
    IF t > Len(page_tables) \/ acc.error # NoExc THEN acc
    ELSE IF page_tables[t] = <<>>
    THEN ExtractPageTables(page_tables, t + 1, page_num,
            [acc EXCEPT !.msgs = Append(@,
                Msg("info", "An empty table structure was detected on page {page_num+1}, table {table_idx+1}.",
                    page_num + 1))])
    ELSE LET r == BuildDataFrame(page_tables[t])
         IN  IF r.error # NoExc
             THEN [acc EXCEPT !.error = r.error]
             ELSE ExtractPageTables(page_tables, t + 1, page_num,
                     [acc EXCEPT !.dfs = Append(@, r.df)])

\* lines 113-156, from 0-based page page_num on
RECURSIVE ExtractPages(_, _, _)
ExtractPages(pages, page_num, acc) ==
    IF page_num >= Len(pages) \/ acc.error # NoExc THEN acc
    ELSE IF pages[page_num + 1] = <<>>
    THEN ExtractPages(pages, page_num + 1,
            [acc EXCEPT !.msgs = Append(@,
                Msg("info", "No tables found on page {page_num+1}.", page_num + 1))])
    ELSE ExtractPages(pages, page_num + 1,
            ExtractPageTables(pages[page_num + 1], 1, page_num, acc))

\* lines 109-156
ExtractAll(doc) ==
    IF ~doc.readable THEN [error |-> "PDFSyntaxError", dfs |-> <<>>, msgs |-> <<>>]
    ELSE ExtractPages(doc.pages, 0,
            [error |-> NoExc, dfs |-> <<>>,
             msgs |-> IF doc.pages = <<>>
                      THEN <<Msg("warning",
                                 "The PDF contains no pages or could not be parsed by pdfplumber.", 0)>>
                      ELSE <<>>])

(***************************************************************************)
(* The inputs the model draws.                                             *)
(***************************************************************************)
SeqsUpTo(S, n) == UNION {[1..m -> S] : m \in 0..n}
SeqsFromTo(S, lo, hi) == UNION {[1..m -> S] : m \in lo..hi}

HeaderCells ==
    {None, EmptyStr, <<" ", "\r", "U+00A0">>, S_Total,
     <<" ", "\f", "U+2003">> \o S_Total \o <<"U+0085", "\r", "\n">>, <<"U+00E9">>,
     S_Total \o <<"_", "1">>, S_Extracted_Column_ \o <<"2">>}
Headers(n) == SeqsUpTo(HeaderCells, n)

GridCells == {None, <<"1">>}
\* a raw table has a header cell or more, and a data row has a cell or more
GridHeaders(c) == SeqsFromTo({None, <<"A">>}, 1, c)
GridRows(c) == SeqsFromTo(GridCells, 1, c + 1)
\* the raw tables of up to c header cells and up to r data rows
RawTables(c, r) == {<<h>> \o rows : h \in GridHeaders(c), rows \in SeqsUpTo(GridRows(c), r)}

\* a DataFrame of c columns and r rows as the pipeline produces them; with two
\* rows or more the last one is a row added in the editor (None cells)
ConvGrid(c, r) ==
    [columns |-> NormalizeHeader([j \in 1..c |-> IF j % 2 = 1 THEN <<"A">> ELSE None]),
     rows |-> [i \in 1..r |->
                 [j \in 1..c |-> IF i = r /\ r >= 2 THEN None
                                 ELSE IntStr(i) \o <<"-">> \o IntStr(j)]]]
ConvGrids(cmax, rmax) == {ConvGrid(c, r) : c \in 0..cmax, r \in 0..rmax}

\* an edited table of n rows; the cell of a row is its 0-based index
TallGrid(n) == [columns |-> << <<"A">> >>, rows |-> [i \in 1..n |-> <<IntStr(i - 1)>>]]

DocTable(r) ==
    << <<S_Total, None>> >> \o
    [i \in 1..r |-> <<IntStr(i), IF i = 1 THEN None ELSE <<"x">> >>]
RaggedTable == << << <<"A">>, None >>, << <<"1">> >>, << <<"2">>, <<"3">>, <<"4">> >> >>
DocTables(rmax) == {<<>>, RaggedTable} \cup {DocTable(r) : r \in 0..rmax}
DocPages(rmax) == {<<>>} \cup {<<t>> : t \in DocTables(rmax)}
\* the documents of up to pmax pages whose tables have up to rmax data rows
Docs(pmax, rmax) ==
    {CorruptDoc} \cup {[readable |-> TRUE, pages |-> p] : p \in SeqsUpTo(DocPages(rmax), pmax)}

\* what st.data_editor(trimmed_df, num_rows="dynamic") can return: the table
\* unchanged, one row deleted, every row deleted, one row added, one cell typed
EditResults(t) ==
    {t}
    \cup {[t EXCEPT !.rows = SubSeq(@, 1, i - 1) \o SubSeq(@, i + 1, Len(@))] :
            i \in 1..Len(t.rows)}
    \cup {[t EXCEPT !.rows = <<>>]}
    \cup {[t EXCEPT !.rows = Append(@, [j \in 1..Len(t.columns) |-> None])]}
    \cup {[t EXCEPT !.rows[i][j] = <<"y">>] :
            i \in 1..Len(t.rows), j \in 1..Len(t.columns)}

(***************************************************************************)
(* States before anything has run.                                         *)
(***************************************************************************)
HdrIdle == header = <<>> /\ i_hdr = 0 /\ columns_df = <<>> /\ temp_col_names = {}
GridIdle == table_data = <<>> /\ df = EmptyDataFrame
ConvIdle == tables = <<>> /\ combined_json = NoJson
SplitIdle ==
    /\ edited_df = EmptyDataFrame /\ num_splits = 0 /\ split_idx = <<>>
    /\ split_points_input = <<>> /\ split_points = <<>> /\ split_tables = <<>>
RunIdle ==
    /\ uploaded_file = NoFile /\ temp_file = "none" /\ extracted_tables_dfs = <<>>
    /\ df_to_operate = EmptyDataFrame /\ trimmed_df = EmptyDataFrame
UiIdle == messages = <<>> /\ downloads = <<>> /\ exc = NoExc

(***************************************************************************)
(* The header loop, one iteration per step (src/app.py:130-142).           *)
(***************************************************************************)
HeaderStep ==
    /\ pc = "header"
    /\ i_hdr < Len(header)
    /\ LET r == HeaderIter(header, i_hdr, columns_df, temp_col_names)
       IN  columns_df' = r.cols /\ temp_col_names' = r.used
    /\ i_hdr' = i_hdr + 1
    /\ UNCHANGED <<pc, header, gridVars, convVars, splitVars, runVars, uiVars>>

HeaderDone ==
    /\ pc = "header"
    /\ i_hdr = Len(header)
    /\ pc' = "normalized"
    /\ UNCHANGED <<hdrVars, gridVars, convVars, splitVars, runVars, uiVars>>

HeaderInit ==
    /\ pc = "header"
    /\ header \in Headers(MaxCols)
    /\ i_hdr = 0 /\ columns_df = <<>> /\ temp_col_names = {}
    /\ GridIdle /\ ConvIdle /\ SplitIdle /\ RunIdle /\ UiIdle

HeaderNext == HeaderStep \/ HeaderDone

SpecHeader == HeaderInit /\ [][HeaderNext]_vars

(***************************************************************************)
(* The DataFrame of one raw table (src/app.py:123-154).                    *)
(***************************************************************************)
BuildGrid ==
    /\ pc = "table"
    /\ LET r == BuildDataFrame(table_data)
       IN  /\ df' = r.df
           /\ exc' = r.error
           /\ pc' = IF r.error = NoExc THEN "built" ELSE "raised"
    /\ UNCHANGED <<table_data, hdrVars, convVars, splitVars, runVars, messages, downloads>>

GridInit ==
    /\ pc = "table"
    /\ table_data \in RawTables(MaxGridCols, MaxGridRows)
    /\ df = EmptyDataFrame
    /\ HdrIdle /\ ConvIdle /\ SplitIdle /\ RunIdle /\ UiIdle

GridNext == BuildGrid

SpecGrid == GridInit /\ [][GridNext]_vars

(***************************************************************************)
(* convert_tables_to_json on a list of tables (src/app.py:13-71).          *)
(***************************************************************************)
Convert ==
    /\ pc = "convert"
    /\ combined_json' = convert_tables_to_json(tables)
    /\ messages' = messages \o SkipWarnings(tables, 0)
    /\ pc' = "converted"
    /\ UNCHANGED <<tables, hdrVars, gridVars, splitVars, runVars, downloads, exc>>

ConvertInit ==
    /\ pc = "convert"
    /\ tables \in SeqsUpTo(ConvGrids(MaxGridCols, MaxGridRows), MaxTables)
    /\ combined_json = NoJson
    /\ HdrIdle /\ GridIdle /\ SplitIdle /\ RunIdle /\ UiIdle

ConvertNext == Convert

SpecConvert == ConvertInit /\ [][ConvertNext]_vars

(***************************************************************************)
(* One run of the script after another (src/app.py:82-308).                *)
(***************************************************************************)
\* line 82-88: a file is uploaded and written to a temporary file
Upload ==
    /\ pc = "idle"
    /\ \E doc \in Docs(MaxPages, MaxDocRows) : uploaded_file' = doc
    /\ temp_file' = "exists"
    /\ pc' = "preview"
    /\ UNCHANGED <<hdrVars, gridVars, convVars, splitVars, extracted_tables_dfs,
                   df_to_operate, trimmed_df, uiVars>>

\* lines 307-308: no file uploaded
NoUpload ==
    /\ pc = "idle"
    /\ messages' = Append(messages, Msg("info", "Please upload a PDF file to begin.", 0))
    /\ pc' = "done"
    /\ UNCHANGED <<hdrVars, gridVars, convVars, splitVars, runVars, downloads, exc>>

\* lines 90-105: the preview has a try/except of its own
Preview ==
    /\ pc = "preview"
    /\ messages' =
         IF ~uploaded_file.readable
         THEN Append(messages, Msg("error", "Error previewing PDF: {preview_error}", 0))
         ELSE IF uploaded_file.pages = <<>>
         THEN Append(messages,
                     Msg("warning", "The PDF is empty or could not be read for preview.", 0))
         ELSE messages
    /\ pc' = "extract"
    /\ UNCHANGED <<hdrVars, gridVars, convVars, splitVars, runVars, downloads, exc>>

\* lines 108-156
Extract ==
    /\ pc = "extract"
    /\ LET r == ExtractAll(uploaded_file)
       IN  /\ messages' = messages \o r.msgs
           /\ exc' = r.error
           /\ extracted_tables_dfs' = r.dfs
           /\ pc' = IF r.error = NoExc THEN "tables" ELSE "except"
    /\ UNCHANGED <<hdrVars, gridVars, convVars, splitVars, uploaded_file, temp_file,
                   df_to_operate, trimmed_df, downloads>>

\* lines 159-168
FirstTable ==
    /\ pc = "tables"
    /\ extracted_tables_dfs # <<>>
    /\ messages' = messages \o
           <<Msg("success", "Successfully extracted {n} table(s) from the PDF.",
                 Len(extracted_tables_dfs)),
             Msg("info",
                 "The operations below (trim, edit, split) apply to the *first* table extracted from the PDF.",
                 0)>>
    /\ df_to_operate' = extracted_tables_dfs[1]
    /\ pc' = "trim"
    /\ UNCHANGED <<hdrVars, gridVars, convVars, splitVars, uploaded_file, temp_file,
                   extracted_tables_dfs, trimmed_df, downloads, exc>>

\* lines 293-294
\* variant: the empty document is built and offered
NoTablesMutEmptyDocument ==
    /\ pc = "tables"
    /\ extracted_tables_dfs = <<>>
    /\ messages' = Append(messages,
           Msg("warning", "No tables were found in the PDF using pdfplumber.", 0))
    /\ combined_json' = convert_tables_to_json(<<>>)
    /\ downloads' = Append(downloads,
           [file_name |-> "surveyjs_tables.json", part |-> 0,
            mime |-> "application/json", data |-> combined_json'])
    /\ pc' = "cleanup"
    /\ UNCHANGED <<hdrVars, gridVars, tables, splitVars, runVars, exc>>

NoTables ==
    /\ pc = "tables"
    /\ extracted_tables_dfs = <<>>
    /\ messages' = Append(messages,
           Msg("warning", "No tables were found in the PDF using pdfplumber.", 0))
    /\ pc' = "cleanup"
    /\ UNCHANGED <<hdrVars, gridVars, convVars, splitVars, runVars, downloads, exc>>

\* lines 171-181
Trim ==
    /\ pc = "trim"
    /\ IF ~IsEmpty(df_to_operate)
       THEN /\ \E lo \in 0..(Len(df_to_operate.rows) - 1) :
                 \E hi \in lo..(Len(df_to_operate.rows) - 1) :
                     trimmed_df' = Iloc(df_to_operate, lo, hi + 1)
            /\ messages' = messages
       ELSE /\ trimmed_df' = df_to_operate
            /\ messages' = Append(messages, Msg("warning", "Cannot trim an empty table.", 0))
    /\ pc' = "edit"
    /\ UNCHANGED <<hdrVars, gridVars, convVars, splitVars, uploaded_file, temp_file,
                   extracted_tables_dfs, df_to_operate, downloads, exc>>

\* lines 183-188
Edit ==
    /\ pc = "edit"
    /\ IF ~IsEmpty(trimmed_df)
       THEN /\ edited_df' \in EditResults(trimmed_df)
            /\ messages' = messages
       ELSE /\ edited_df' = trimmed_df
            /\ messages' = Append(messages,
                   Msg("warning", "Trimmed table is empty, cannot edit.", 0))
    /\ pc' = "split"
    /\ UNCHANGED <<hdrVars, gridVars, convVars, num_splits, split_idx, split_points_input,
                   split_points, split_tables, runVars, downloads, exc>>

\* lines 255-257: nothing to split
SplitEmpty ==
    /\ pc = "split"
    /\ IsEmpty(edited_df)
    /\ messages' = Append(messages, Msg("warning", "Cannot split an empty table.", 0))
    /\ split_tables' = <<>>
    /\ pc' = "json"
    /\ UNCHANGED <<hdrVars, gridVars, convVars, edited_df, num_splits, split_idx,
                   split_points_input, split_points, runVars, downloads, exc>>

\* lines 192-217: num_splits and the num_splits - 1 split-point widgets
SplitInput ==
    /\ pc = "split"
    /\ ~IsEmpty(edited_df)
    /\ LET n == Len(edited_df.rows)
       IN  \E k \in 1..Min(n, MaxSplits) :
             /\ num_splits' = k
             /\ IF WidgetsAccepted(n, k)
                THEN /\ \E idx \in [1..(k - 1) -> WidgetMin..WidgetMax(n)] :
                          /\ split_idx' = idx
                          /\ split_points_input' = [w \in 1..(k - 1) |-> ToSplitPoint(idx[w])]
                     /\ exc' = exc
                     /\ pc' = "compute"
                ELSE /\ split_idx' = split_idx
                     /\ split_points_input' = split_points_input
                     /\ exc' = "StreamlitAPIException"
                     /\ pc' = "except"
    /\ UNCHANGED <<hdrVars, gridVars, convVars, edited_df, split_points, split_tables,
                   runVars, messages, downloads>>

\* lines 220-236
ComputeSplit ==
    /\ pc = "compute"
    /\ LET pts == SplitPoints(split_points_input, Len(edited_df.rows))
           parts == SplitTables(edited_df, pts)
       IN  /\ split_points' = pts
           /\ IF parts = <<>> /\ ~IsEmpty(edited_df)
              THEN /\ split_tables' = <<edited_df>>
                   /\ messages' = Append(messages,
                          Msg("warning",
                              "Splitting configuration resulted in no valid tables. Using the edited table as a single part.",
                              0))
              ELSE /\ split_tables' = parts
                   /\ messages' = messages
    /\ pc' = "csv"
    /\ UNCHANGED <<hdrVars, gridVars, convVars, edited_df, num_splits, split_idx,
                   split_points_input, runVars, downloads, exc>>

\* lines 239-254
EmitCsv ==
    /\ pc = "csv"
    /\ downloads' = downloads \o CsvDownloads(split_tables, 0)
    /\ messages' = messages \o CsvInfos(split_tables, 0)
    /\ pc' = "json"
    /\ UNCHANGED <<hdrVars, gridVars, convVars, splitVars, runVars, exc>>

\* lines 260-291
EmitJson ==
    /\ pc = "json"
    /\ IF split_tables # <<>>
       THEN /\ tables' = split_tables
            /\ combined_json' = convert_tables_to_json(split_tables)
            /\ messages' = messages \o SkipWarnings(split_tables, 0)
            /\ downloads' = Append(downloads,
                   [file_name |-> "surveyjs_tables.json", part |-> 0,
                    mime |-> "application/json", data |-> combined_json'])
       ELSE IF ~IsEmpty(edited_df)
       THEN /\ tables' = <<edited_df>>
            /\ combined_json' = convert_tables_to_json(<<edited_df>>)
            /\ messages' =
                 Append(messages,
                        Msg("info",
                            "No splits were made, or splits resulted in empty tables. Converting the edited table as a single unit.",
                            0))
                 \o SkipWarnings(<<edited_df>>, 0)
            /\ downloads' = Append(downloads,
                   [file_name |-> "surveyjs_table.json", part |-> 0,
                    mime |-> "application/json", data |-> combined_json'])
       ELSE /\ messages' = Append(messages, Msg("info", "No tables to convert to JSON.", 0))
            /\ UNCHANGED <<tables, combined_json, downloads>>
    /\ pc' = "cleanup"
    /\ UNCHANGED <<hdrVars, gridVars, splitVars, runVars, exc>>

\* lines 295-296: the handler of the try that starts at line 108
\* variant: the handler ends the run without the cleanup
ExceptMutNoCleanup ==
    /\ pc = "except"
    /\ messages' = Append(messages,
           Msg("error", "An error occurred during table processing: {e}", 0))
    /\ pc' = "done"
    /\ UNCHANGED <<hdrVars, gridVars, convVars, splitVars, runVars, downloads, exc>>

Except ==
    /\ pc = "except"
    /\ messages' = Append(messages,
           Msg("error", "An error occurred during table processing: {e}", 0))
    /\ pc' = "cleanup"
    /\ UNCHANGED <<hdrVars, gridVars, convVars, splitVars, runVars, downloads, exc>>

\* lines 302-303: os.unlink succeeds
CleanupOk ==
    /\ pc = "cleanup"
    /\ temp_file' = "deleted"
    /\ pc' = "done"
    /\ UNCHANGED <<hdrVars, gridVars, convVars, splitVars, uploaded_file,
                   extracted_tables_dfs, df_to_operate, trimmed_df, uiVars>>

\* lines 304-305: os.unlink raises
CleanupFails ==
    /\ pc = "cleanup"
    /\ messages' = Append(messages,
           Msg("warning", "Could not delete temporary file {temp_file_path}: {e}", 0))
    /\ pc' = "done"
    /\ UNCHANGED <<hdrVars, gridVars, convVars, splitVars, runVars, downloads, exc>>

\* the script has ended; the next interaction runs it again from the top
Rerun ==
    /\ pc = "done"
    /\ pc' = "idle"
    /\ header' = <<>> /\ i_hdr' = 0 /\ columns_df' = <<>> /\ temp_col_names' = {}
    /\ table_data' = <<>> /\ df' = EmptyDataFrame
    /\ tables' = <<>> /\ combined_json' = NoJson
    /\ edited_df' = EmptyDataFrame /\ num_splits' = 0 /\ split_idx' = <<>>
    /\ split_points_input' = <<>> /\ split_points' = <<>> /\ split_tables' = <<>>
    /\ uploaded_file' = NoFile /\ temp_file' = "none" /\ extracted_tables_dfs' = <<>>
    /\ df_to_operate' = EmptyDataFrame /\ trimmed_df' = EmptyDataFrame
    /\ messages' = <<>> /\ downloads' = <<>> /\ exc' = NoExc

Init ==
    /\ pc = "idle"
    /\ HdrIdle /\ GridIdle /\ ConvIdle /\ SplitIdle /\ RunIdle /\ UiIdle

Next ==
    \/ Upload \/ NoUpload \/ Preview \/ Extract \/ FirstTable \/ NoTables
    \/ Trim \/ Edit \/ SplitEmpty \/ SplitInput \/ ComputeSplit \/ EmitCsv \/ EmitJson
    \/ Except \/ CleanupOk \/ CleanupFails \/ Rerun

Spec == Init /\ [][Next]_vars

(***************************************************************************)
(* The split section on its own, on edited tables of up to MaxSplitRows    *)
(* rows (src/app.py:190-291).                                              *)
(***************************************************************************)
SplitInit ==
    /\ pc = "split"
    /\ edited_df \in {TallGrid(n) : n \in 0..MaxSplitRows}
    /\ num_splits = 0 /\ split_idx = <<>>
    /\ split_points_input = <<>> /\ split_points = <<>> /\ split_tables = <<>>
    /\ HdrIdle /\ GridIdle /\ ConvIdle /\ RunIdle /\ UiIdle

SplitNext == SplitEmpty \/ SplitInput \/ ComputeSplit \/ EmitCsv \/ EmitJson

SpecSplit == SplitInit /\ [][SplitNext]_vars

(***************************************************************************)
(* Vocabulary of the properties.                                           *)
(***************************************************************************)
IsPrefix(p, s) == Len(p) <= Len(s) /\ SubSeq(s, 1, Len(p)) = p
Contains(s, t) == \E k \in 0..(Len(s) - Len(t)) : SubSeq(s, k + 1, k + Len(t)) = t
\* whitespace: TAB, LF, FF, CR, SPACE, U+000B, U+001C..U+001F, and the
\* separators and spaces from U+0080 on
Whitespace ==
    {"\t", "\n", "\f", "\r", " ",
     "", "", "", "", ""}
    \cup {"U+0085", "U+00A0", "U+1680", "U+2028", "U+2029", "U+202F", "U+205F", "U+3000"}
    \cup {"U+2000", "U+2001", "U+2002", "U+2003", "U+2004", "U+2005", "U+2006",
          "U+2007", "U+2008", "U+2009", "U+200A"}
Blank(h) == h = None \/ \A k \in 1..Len(h) : h[k] \in Whitespace
\* a non-blank cell without its leading and trailing whitespace
Trimmed(h) ==
    LET inked == {k \in 1..Len(h) : h[k] \notin Whitespace}
        lo == CHOOSE k \in inked : \A k2 \in inked : k <= k2
        hi == CHOOSE k \in inked : \A k2 \in inked : k2 <= k
    IN  SubSeq(h, lo, hi)
RECURSIVE ConcatRows(_)
ConcatRows(tbls) == IF tbls = <<>> THEN <<>> ELSE Head(tbls).rows \o ConcatRows(Tail(tbls))
RangeOf(seq) == {seq[k] : k \in 1..Len(seq)}
Texts(kind) == {m.text : m \in {m2 \in RangeOf(messages) : m2.kind = kind}}
JsonDownloads == {d \in RangeOf(downloads) : d.mime = "application/json"}

\* the naming rule of the header normaliser with a given prefix for blank cells:
\* position i gets its candidate, or candidate_k for the smallest k >= 1 that no
\* earlier position uses
NamedWith(prefix) ==
    /\ Len(columns_df) = Len(header)
    /\ \A i \in 1..Len(header) :
         LET cand == IF Blank(header[i]) THEN prefix \o IntStr(i) ELSE Trimmed(header[i])
             earlier == {columns_df[j] : j \in 1..(i - 1)}
             suffixed(k) == cand \o <<"_">> \o IntStr(k)
         IN  IF cand \notin earlier THEN columns_df[i] = cand
             ELSE \E k \in 1..Len(header) :
                    /\ columns_df[i] = suffixed(k)
                    /\ suffixed(k) \notin earlier
                    /\ \A k2 \in 1..(k - 1) : suffixed(k2) \in earlier

L_Column_ == <<"C","o","l","u","m","n","_">>
L_Extracted_Column_ == <<"E","x","t","r","a","c","t","e","d","_">> \o L_Column_
L_Total == <<"T","o","t","a","l">>
L_Table == <<"T","a","b","l","e"," ">>
L_Row == <<"R","o","w"," ">>

(***************************************************************************)
(* C1.  Header normaliser: a header row of N cells (null, empty,           *)
(* whitespace-only or duplicated cells included) gives exactly N           *)
(* identifiers, each a non-empty string, no two equal, and the identifier  *)
(* at position i comes from the cell at position i: it starts with the     *)
(* trimmed cell, or, for a blank cell, carries the position i.             *)
(***************************************************************************)
C1_HeaderIdentifiers ==
    pc = "normalized" =>
        /\ Len(columns_df) = Len(header)
        /\ \A i \in 1..Len(columns_df) : columns_df[i] # None /\ columns_df[i] # EmptyStr
        /\ \A i \in 1..Len(columns_df) : \A j \in 1..Len(columns_df) :
               i # j => columns_df[i] # columns_df[j]
        /\ \A i \in 1..Len(columns_df) :
               IF Blank(header[i]) THEN Contains(columns_df[i], IntStr(i))
               ELSE IsPrefix(Trimmed(header[i]), columns_df[i])

C1_Witness ==
    /\ pc = "normalized"
    /\ header = <<None, L_Total, L_Total, <<" ", "\r", "U+00A0">> >>
    /\ Cardinality(RangeOf(columns_df)) = 4

(***************************************************************************)
(* C7.  Header normaliser naming, as claimed: trim(raw[i]) when non-empty, *)
(* otherwise "Column_<i+1>"; a candidate already used gets "_k" for the    *)
(* smallest positive k not yet used; ["", "Total", "Total", ""] gives      *)
(* [Column_1, Total, Total_1, Column_4] and three "Total" give Total,      *)
(* Total_1, Total_2.                                                       *)
(***************************************************************************)
C7_NamingAsClaimed ==
    pc = "normalized" =>
        /\ NamedWith(L_Column_)
        /\ header = <<EmptyStr, L_Total, L_Total, EmptyStr>> =>
             columns_df = <<L_Column_ \o <<"1">>, L_Total, L_Total \o <<"_", "1">>,
                            L_Column_ \o <<"4">> >>
        /\ header = <<L_Total, L_Total, L_Total>> =>
             columns_df = <<L_Total, L_Total \o <<"_", "1">>, L_Total \o <<"_", "2">> >>

(***************************************************************************)
(* C7, amended.  The same naming rule with the prefix the code uses for a  *)
(* blank cell, "Extracted_Column_<i+1>": ["", "Total", "Total", ""] gives  *)
(* [Extracted_Column_1, Total, Total_1, Extracted_Column_4] and three      *)
(* "Total" give Total, Total_1, Total_2.                                   *)
(***************************************************************************)
C7_NamingAmended ==
    pc = "normalized" =>
        /\ NamedWith(L_Extracted_Column_)
        /\ header = <<EmptyStr, L_Total, L_Total, EmptyStr>> =>
             columns_df = <<L_Extracted_Column_ \o <<"1">>, L_Total,
                            L_Total \o <<"_", "1">>, L_Extracted_Column_ \o <<"4">> >>
        /\ header = <<L_Total, L_Total, L_Total>> =>
             columns_df = <<L_Total, L_Total \o <<"_", "1">>, L_Total \o <<"_", "2">> >>

C7_Witness ==
    /\ pc = "normalized"
    /\ header = <<EmptyStr, L_Total, L_Total, EmptyStr>>
    /\ columns_df[3] = L_Total \o <<"_", "1">>
    /\ columns_df[4] = L_Extracted_Column_ \o <<"4">>

\* the split section has computed split_tables from the widgets' values
SplitDone == pc \in {"csv", "json", "cleanup", "done"} /\ num_splits >= 1

(***************************************************************************)
(* C2.  Table splitter: for a non-empty edited table of R rows, a split    *)
(* count K in 1..R and K-1 widget values in 0..R-2 (duplicates, any        *)
(* order), the parts are non-empty contiguous row ranges that, in order,   *)
(* cover rows [0, R) exactly once; there are at most K of them; K = 1      *)
(* gives one part, the whole table.                                        *)
(***************************************************************************)
C2_SplitPartition ==
    SplitDone =>
        /\ Len(split_tables) >= 1
        /\ Len(split_tables) <= num_splits
        /\ \A q \in 1..Len(split_tables) :
             /\ split_tables[q].rows # <<>>
             /\ split_tables[q].columns = edited_df.columns
        /\ ConcatRows(split_tables) = edited_df.rows
        /\ num_splits = 1 => split_tables = <<edited_df>>

C2_Witness ==
    /\ SplitDone
    /\ Len(edited_df.rows) = 10
    /\ num_splits = 3
    /\ split_idx = <<6, 2>>
    /\ Len(split_tables) = 3

(***************************************************************************)
(* C3.  Split-point semantics, as claimed: the table is split before each  *)
(* row index the user enters; for 10 rows and the entered split points 3   *)
(* and 7 the parts are rows 0-2, 3-6 and 7-9.                              *)
(***************************************************************************)
C3_SplitBeforeEnteredRows ==
    SplitDone =>
        /\ \A w \in 1..Len(split_idx) : split_idx[w] \in RangeOf(split_points)
        /\ (Len(edited_df.rows) = 10 /\ split_idx = <<3, 7>>) =>
             /\ Len(split_tables) = 3
             /\ split_tables[1].rows = SubSeq(edited_df.rows, 1, 3)
             /\ split_tables[2].rows = SubSeq(edited_df.rows, 4, 7)
             /\ split_tables[3].rows = SubSeq(edited_df.rows, 8, 10)

(***************************************************************************)
(* C10.  Default split points: for R >= 2 rows and 2 <= K <= R the default *)
(* value of widget i, clamp(floor((i+1)*R/K), 1, R-1) - 1 for i = 0..K-2,  *)
(* lies in the widget's range [0, R-2] (so no widget raises), the defaults *)
(* are strictly increasing in i, and leaving them all unchanged gives      *)
(* exactly K non-empty parts.                                              *)
(***************************************************************************)
C10_DefaultSplitPoints ==
    /\ pc # "except" /\ exc = NoExc
    /\ LET R == Len(edited_df.rows)
       IN  \A K \in 2..R :
             LET d == WidgetDefaults(R, K)
                 parts == SplitTables(edited_df,
                              SplitPoints([w \in 1..(K - 1) |-> ToSplitPoint(d[w])], R))
             IN  /\ Len(d) = K - 1
                 /\ \A w \in 1..(K - 1) : 0 <= d[w] /\ d[w] <= R - 2
                 /\ \A w \in 1..(K - 2) : d[w] < d[w + 1]
                 /\ Len(parts) = K
                 /\ \A q \in 1..K : parts[q].rows # <<>>
                 /\ (SplitDone /\ num_splits = K /\ split_idx = d) =>
                      /\ Len(split_tables) = K
                      /\ \A q \in 1..K : split_tables[q].rows # <<>>

C10_Witness ==
    /\ SplitDone
    /\ Len(edited_df.rows) = 10
    /\ num_splits = 3
    /\ split_idx = WidgetDefaults(10, 3)
    /\ split_idx = <<2, 5>>
    /\ Len(split_tables) = 3

(***************************************************************************)
(* C5.  convert_tables_to_json: pages[0].elements has one element per      *)
(* non-empty input table (a row and a column at least); the element of the *)
(* table at 1-based position p is named "Table p" (a skipped table still   *)
(* takes a position); its rows are "Row 1" .. "Row <rowCount>" in order    *)
(* and len(rows) = number of keys of defaultValue = rowCount.              *)
(***************************************************************************)
C5_ConvertElements ==
    pc = "converted" =>
        /\ Len(combined_json.pages) = 1
        /\ LET els == combined_json.pages[1].elements
               kept == {q \in 1..Len(tables) :
                           Len(tables[q].rows) >= 1 /\ Len(tables[q].columns) >= 1}
           IN  /\ Len(els) = Cardinality(kept)
               /\ \A k \in 1..Len(els) :
                    LET q == CHOOSE q2 \in kept : Cardinality({q3 \in kept : q3 <= q2}) = k
                        n == Len(tables[q].rows)
                    IN  /\ els[k].name = L_Table \o IntStr(q)
                        /\ Len(els[k].rows) = n
                        /\ Cardinality(DOMAIN els[k].defaultValue) = n
                        /\ els[k].rows = [i \in 1..n |-> L_Row \o IntStr(i)]

C5_Witness ==
    /\ pc = "converted"
    /\ Len(tables) = 3
    /\ ~IsEmpty(tables[1]) /\ IsEmpty(tables[2]) /\ ~IsEmpty(tables[3])
    /\ Len(tables[3].rows) = 2
    /\ Len(combined_json.pages[1].elements) = 2
    /\ combined_json.pages[1].elements[2].name = L_Table \o <<"3">>

(***************************************************************************)
(* C4.  Grid builder, as claimed: for every raw table (a header row and    *)
(* data rows of any, possibly differing, lengths) no error is raised, the  *)
(* grid has one row per data row and one cell per column identifier in     *)
(* every row, every cell is a string (null becomes ""), a shorter row is   *)
(* padded with "" and the excess cells of a longer row are dropped.        *)
(***************************************************************************)
C4_GridBuilderTotal ==
    pc \in {"built", "raised"} =>
        /\ pc = "built" /\ exc = NoExc
        /\ Len(df.columns) = Len(table_data[1])
        /\ Len(df.rows) = Len(table_data) - 1
        /\ \A r \in 1..Len(df.rows) :
             /\ Len(df.rows[r]) = Len(df.columns)
             /\ \A j \in 1..Len(df.rows[r]) :
                  df.rows[r][j] =
                    IF j <= Len(table_data[r + 1]) /\ table_data[r + 1][j] # None
                    THEN table_data[r + 1][j] ELSE EmptyStr

\* a run that took an upload, raised nothing and extracted no table
ZeroTables ==
    /\ pc \in {"cleanup", "done"}
    /\ uploaded_file # NoFile
    /\ exc = NoExc
    /\ extracted_tables_dfs = <<>>

(***************************************************************************)
(* C6.  Zero tables, as claimed: when the extractor yields zero tables of  *)
(* an uploaded document, the run produces the SurveyDocument               *)
(* pages: [{name: "page1", elements: []}] together with a "no tables       *)
(* found" signal, and does not crash.                                      *)
(***************************************************************************)
C6_ZeroTablesEmptyDocument ==
    ZeroTables =>
        /\ combined_json = [pages |-> << [name |-> <<"p","a","g","e","1">>, elements |-> <<>>] >>]
        /\ "No tables were found in the PDF using pdfplumber." \in Texts("warning")

(***************************************************************************)
(* C6, amended.  When the extractor yields zero tables of an uploaded      *)
(* document, the run shows the "No tables were found" warning, produces no *)
(* SurveyDocument and offers no download, shows no processing error, and   *)
(* goes on to the cleanup of the temporary file.                           *)
(***************************************************************************)
C6_ZeroTablesWarningOnly ==
    /\ (pc = "tables" /\ extracted_tables_dfs = <<>>) => ENABLED NoTables
    /\ ZeroTables =>
        /\ "No tables were found in the PDF using pdfplumber." \in Texts("warning")
        /\ combined_json = NoJson
        /\ downloads = <<>>
        /\ Texts("error") \subseteq {"Error previewing PDF: {preview_error}"}
        /\ pc = "done" =>
             \/ temp_file = "deleted"
             \/ "Could not delete temporary file {temp_file_path}: {e}" \in Texts("warning")

C6_Witness ==
    /\ ZeroTables
    /\ pc = "done"
    /\ Len(uploaded_file.pages) = 2
    /\ uploaded_file.pages[2] = << <<>> >>
    /\ "No tables were found in the PDF using pdfplumber." \in Texts("warning")
    /\ temp_file = "deleted"

(***************************************************************************)
(* C8.  Extraction failure: when the extraction / processing stage raises  *)
(* for an uploaded document, the error is shown to the user as a message,  *)
(* no CSV or JSON output is produced, the run still goes through the       *)
(* cleanup of the temporary file, and the script ends normally, so that    *)
(* the session takes another upload.                                       *)
(***************************************************************************)
C8_FailureHandled ==
    /\ pc = "except" => exc # NoExc /\ ENABLED Except
    /\ exc # NoExc =>
        /\ pc \in {"except", "cleanup", "done"}
        /\ downloads = <<>> /\ combined_json = NoJson
        /\ pc \in {"cleanup", "done"} =>
             "An error occurred during table processing: {e}" \in Texts("error")
        /\ pc = "cleanup" => ENABLED CleanupOk /\ ENABLED CleanupFails
        /\ pc = "done" =>
             /\ \/ temp_file = "deleted"
                \/ "Could not delete temporary file {temp_file_path}: {e}" \in Texts("warning")
             /\ ENABLED Rerun

C8_Witness ==
    /\ pc = "done"
    /\ exc = "ValueError"
    /\ Len(uploaded_file.pages) = 2
    /\ uploaded_file.pages[2] = <<RaggedTable>>
    /\ temp_file = "deleted"
    /\ "An error occurred during table processing: {e}" \in Texts("error")

(***************************************************************************)
(* C9.  JSON is produced exactly when the edited table is non-empty.  For  *)
(* a non-empty edited table and any admitted split input the split step    *)
(* yields a part at least, and the combined JSON, with an element at       *)
(* least, is emitted by the split_tables branch; the "no valid tables"     *)
(* fallback and the single-table JSON branch are never taken.  For an      *)
(* empty edited table there is no part and no JSON.                        *)
(***************************************************************************)
C9_JsonIffEditedNonEmpty ==
    /\ "Splitting configuration resulted in no valid tables. Using the edited table as a single part."
           \notin Texts("warning")
    /\ "No splits were made, or splits resulted in empty tables. Converting the edited table as a single unit."
           \notin Texts("info")
    /\ \A d \in RangeOf(downloads) : d.file_name # "surveyjs_table.json"
    /\ (pc \in {"cleanup", "done"} /\ exc = NoExc /\ extracted_tables_dfs # <<>>) =>
         IF ~IsEmpty(edited_df)
         THEN /\ split_tables # <<>>
              /\ Cardinality(JsonDownloads) = 1
              /\ \A d \in JsonDownloads :
                   /\ d.file_name = "surveyjs_tables.json"
                   /\ d.data = combined_json
                   /\ Len(d.data.pages) = 1
                   /\ Len(d.data.pages[1].elements) >= 1
         ELSE /\ split_tables = <<>>
              /\ downloads = <<>>
              /\ combined_json = NoJson

C9_Witness ==
    /\ pc = "done" /\ exc = NoExc
    /\ Len(df_to_operate.rows) = 2
    /\ Len(edited_df.rows) = 3
    /\ num_splits = 2
    /\ Len(split_tables) = 2
    /\ Cardinality(JsonDownloads) = 1
    /\ Len(combined_json.pages[1].elements) = 2

====
